---------------------------- MODULE Spec2Model ----------------------------
(***************************************************************************)
(* The instance reconciliation engine of cluster-api-provider-aws          *)
(* (package ec2: instances.go, package tags: types.go), as a state machine *)
(* over an EC2 backend.                                                    *)
(*                                                                         *)
(* Spec        the orchestrator CreateOrGetMachine invoked again and again *)
(*             for the machines of one cluster, one invocation at a time,  *)
(*             its backend calls interleaved with the backend's own        *)
(*             progress and with instances being terminated.               *)
(* SpecCreate  one invocation of createInstance for every machine / cluster*)
(*             configuration of Configs.                                   *)
(* SpecConcurrent  CreateOrGetMachine invoked for different machines at    *)
(*             once, the invocations interleaved at their backend calls.   *)
(* SpecTerminate   TerminateInstance and TerminateInstanceAndWait on a     *)
(*             backend holding instances in any state.                     *)
(* SpecTagging UpdateResourceTags with every create and remove map of      *)
(*             TagMaps on a tagged resource.                               *)
(* SpecMaps    Map.Difference and Map.Equals on every pair of TagMaps.     *)
(* SpecFinder  InstanceByTags and InstanceIfExists on describe answers of  *)
(*             up to MaxReservations reservations.                         *)
(* SpecConverge    UpdateResourceTags invoked with the two differences of  *)
(*             the desired and the observed tags of a resource.            *)
(* SpecLifecycle   one machine reconciled, its instance terminated and     *)
(*             waited for, and the machine reconciled again.               *)
(***************************************************************************)
EXTENDS Integers, Sequences, FiniteSets, TLC

VARIABLES
    instances,   \* the backend's instances, in backend (creation) order; id = index;
                 \* each with its state, its tags, and the machine it was created for
    call,        \* per machine: the CreateOrGetMachine invocation in flight or last returned
    term,        \* the TerminateInstance / TerminateInstanceAndWait invocation
    tagging,     \* the UpdateResourceTags invocation
    maps,        \* the tag maps a function of package tags is applied to, and its results
    lookup       \* the describe answer a lookup of the Instance Finder is applied to,
                 \* and what the lookup returns

vars == <<instances, call, term, tagging, maps, lookup>>

\* The variables of the operations other than CreateOrGetMachine.
others == <<term, tagging, maps, lookup>>

----------------------------------------------------------------------------
(* Bounds and names *)

\* The backend creates at most this many instances (caps RunInstances).
MaxInstances == 2

Machines == {"m1", "m2"}

\* s.scope.Name(): the cluster's name, and machine.ClusterID(): the legacy id.
ClusterName == "c1"
ClusterID == "cid1"

\* A nil *string / nil pointer, as opposed to the empty string.
Null == "<nil>"

\* Errors: the backend's or the package's code, the message, and whether the error
\* went through errors.Wrap (a wrapper hides the backend's code from a type assertion).
Err(code, msg) == [code |-> code, msg |-> msg, wrapped |-> FALSE]

\* A nil error.
NoErr == Err("nil", "")

\* An error of the AWS SDK with this code.
AwsErr(code) == Err(code, code)

\* A nil *v1alpha1.Instance.
NoInstance == 0

\* A non-nil, unfinished descriptor that never reached the backend ("return input, err").
PartialInstance == -1

InstanceIds == 1..MaxInstances

----------------------------------------------------------------------------
(* package tags *)

ResourceLifecycleOwned == "owned"
ResourceLifecycleShared == "shared"
NameKubernetesClusterPrefix == "kubernetes.io/cluster/"
NameAWSProviderManaged == "sigs.k8s.io/cluster-api-provider-aws/managed"
NameAWSClusterAPIRole == "sigs.k8s.io/cluster-api-provider-aws/role"

\* The cluster-ownership tag key of a cluster.
ClusterKey(name) == NameKubernetesClusterPrefix \o name

\* tags.Build: Name if given, role if given, the cluster-ownership tag set to the
\* lifecycle, and the provider-managed marker.
Build(clusterName, lifecycle, name, role) ==
    LET base == (ClusterKey(clusterName) :> lifecycle) @@ (NameAWSProviderManaged :> "true")
        withRole == IF role = Null THEN base ELSE (NameAWSClusterAPIRole :> role) @@ base
    IN  IF name = Null THEN withRole ELSE ("Name" :> name) @@ withRole

\* m[key] = value on a Go map: insert or overwrite.
MapSet(m, key, value) == (key :> value) @@ m

\* Whether a tag map holds key with exactly this value.
HasTag(m, key, value) == key \in DOMAIN m /\ m[key] = value

\* A value of type Map: the nil map, or a map that was made, with its entries kv.
\* Reading and ranging over a nil map is as over an empty one.
NilMap == [isNil |-> TRUE, kv |-> <<>>]

MakeMap(kv) == [isNil |-> FALSE, kv |-> kv]

\* len(m)
MapLen(m) == Cardinality(DOMAIN m.kv)

\* Map.Equals: reflect.DeepEqual of two values of type Map, which holds when both are
\* nil or both are not, they have the same length, and every key of the one is a key
\* of the other with an equal value.
Equals(m, other) ==
    /\ m.isNil = other.isNil
    /\ MapLen(m) = MapLen(other)
    /\ \A key \in DOMAIN m.kv : key \in DOMAIN other.kv /\ m.kv[key] = other.kv[key]

\* Variant: an entry is left out as soon as the other map holds its key.
DifferenceByKey(m, other) ==
    MakeMap([key \in {k \in DOMAIN m.kv : k \notin DOMAIN other.kv} |-> m.kv[key]])

\* Map.Difference: a new map with the entries of m, but for those whose key the other
\* map holds with an equal value.
Difference(m, other) ==
    MakeMap([key \in {k \in DOMAIN m.kv : ~(k \in DOMAIN other.kv /\ m.kv[k] = other.kv[k])}
                |-> m.kv[key]])

----------------------------------------------------------------------------
(* The EC2 backend *)

InstanceStateNamePending == "pending"
InstanceStateNameRunning == "running"
InstanceStateNameShuttingDown == "shutting-down"
InstanceStateNameTerminated == "terminated"

\* filter.EC2.InstanceStates(pending, running)
LiveStates == {InstanceStateNamePending, InstanceStateNameRunning}

Exists(id) == id \in 1..Len(instances)

IsLive(id) == Exists(id) /\ instances[id].state \in LiveStates

\* Variant: the describe call filters on the cluster alone, not on the machine's name.
MatchesTagsOfCluster(id, cluster, name) ==
    HasTag(instances[id].tags, ClusterKey(cluster), ResourceLifecycleOwned)

\* filter.EC2.ClusterOwned(cluster) and filter.EC2.Name(name) on an instance's tags.
MatchesTags(id, cluster, name) ==
    /\ HasTag(instances[id].tags, ClusterKey(cluster), ResourceLifecycleOwned)
    /\ HasTag(instances[id].tags, "Name", name)

\* The ids of a set, ascending: the backend answers in creation order.
RECURSIVE Ascending(_)
Ascending(S) ==
    IF S = {} THEN <<>>
    ELSE LET lo == CHOOSE x \in S : \A y \in S : x <= y
         IN  <<lo>> \o Ascending(S \ {lo})

\* One reservation per RunInstances call, one instance per reservation.
Reservations(ids) == [k \in 1..Len(ids) |-> <<ids[k]>>]

\* Variant: the describe call by id does not filter on the instance's state.
MatchByIdAnyState(id) == Ascending({i \in 1..Len(instances) : i = id})

\* filter.EC2.InstanceStates(pending, running) and the instance id.
MatchById(id) == Ascending({i \in 1..Len(instances) : i = id /\ IsLive(i)})

MatchByTags(cluster, name) ==
    Ascending({i \in 1..Len(instances) : IsLive(i) /\ MatchesTags(i, cluster, name)})

\* The instances earlier invocations created for machine m, and those of them that
\* are pending or running.
CreatedFor(m) == {i \in 1..Len(instances) : instances[i].by = m}

LiveFor(m) == {i \in CreatedFor(m) : IsLive(i)}

\* What DescribeInstances may answer when `found` is what the filters match: a fault
\* at any time; not-found (or an empty answer) only when nothing matches.
DescribeOutcomes(found) ==
    {[err |-> AwsErr("RequestError"), Reservations |-> <<>>]}
    \cup (IF found = <<>>
          THEN {[err |-> AwsErr("NotFound"), Reservations |-> <<>>],
                [err |-> NoErr, Reservations |-> <<>>]}
          ELSE {[err |-> NoErr, Reservations |-> Reservations(found)]})

\* awserrors.IsNotFound: the backend's not-found code, not seen through a wrapper.
IsNotFound(err) == err.code = "NotFound" /\ ~err.wrapped

\* errors.Wrap(err, msg), errors.Wrapf
Wrap(err, msg) == [code |-> err.code, msg |-> msg \o ": " \o err.msg, wrapped |-> TRUE]

\* errors.New(msg), errors.Errorf
New(msg) == Err("error", msg)

\* awserrors.NewFailedDependency(err)
NewFailedDependency(err) == [err EXCEPT !.code = "FailedDependency"]

IsFailedDependency(err) == err.code = "FailedDependency"

\* A nil pointer dereference: the invocation panics and returns nothing.
Panic == Err("panic", "invalid memory address or nil pointer dereference")

\* converters.SDKToInstance: the observed descriptor of a backend record. A describe
\* answer holds the records by their ids, and a descriptor is told apart by its ID.
SDKToInstance(rec) == rec

----------------------------------------------------------------------------
(* Instance Finder *)

\* The return value of a lookup that was not made.
NotCalled == [called |-> FALSE, out |-> NoErr, inst |-> NoInstance, err |-> NoErr]

\* Variant: a not-found answer is reported as a fault.
InstanceByTagsNotFoundFails(out) ==
    IF out.err # NoErr
    THEN [inst |-> NoInstance, err |-> Wrap(out.err, "failed to describe instances by tags")]
    ELSE LET full == {k \in 1..Len(out.Reservations) : Len(out.Reservations[k]) > 0}
         IN  IF full = {} THEN [inst |-> NoInstance, err |-> NoErr]
             ELSE [inst |-> SDKToInstance(out.Reservations[CHOOSE k \in full : \A j \in full : k <= j][1]),
                   err |-> NoErr]

\* Variant: only the first reservation is looked at.
InstanceByTagsFirstReservation(out) ==
    IF IsNotFound(out.err) THEN [inst |-> NoInstance, err |-> NoErr]
    ELSE IF out.err # NoErr
    THEN [inst |-> NoInstance, err |-> Wrap(out.err, "failed to describe instances by tags")]
    ELSE IF Len(out.Reservations) > 0 /\ Len(out.Reservations[1]) > 0
    THEN [inst |-> SDKToInstance(out.Reservations[1][1]), err |-> NoErr]
    ELSE [inst |-> NoInstance, err |-> NoErr]

\* InstanceByTags on the answer `out` of DescribeInstances: the first instance of the
\* first reservation that holds one.
InstanceByTags(out) ==
    IF IsNotFound(out.err) THEN [inst |-> NoInstance, err |-> NoErr]
    ELSE IF out.err # NoErr
    THEN [inst |-> NoInstance, err |-> Wrap(out.err, "failed to describe instances by tags")]
    ELSE LET full == {k \in 1..Len(out.Reservations) : Len(out.Reservations[k]) > 0}
         IN  IF full = {} THEN [inst |-> NoInstance, err |-> NoErr]
             ELSE [inst |-> SDKToInstance(out.Reservations[CHOOSE k \in full : \A j \in full : k <= j][1]),
                   err |-> NoErr]

\* InstanceIfExists on the answer `out` of DescribeInstances: the first instance of the
\* first reservation, if both exist.
InstanceIfExists(out) ==
    IF IsNotFound(out.err) THEN [inst |-> NoInstance, err |-> NoErr]
    ELSE IF out.err # NoErr
    THEN [inst |-> NoInstance, err |-> Wrap(out.err, "failed to describe instance")]
    ELSE IF Len(out.Reservations) > 0 /\ Len(out.Reservations[1]) > 0
    THEN [inst |-> SDKToInstance(out.Reservations[1][1]), err |-> NoErr]
    ELSE [inst |-> NoInstance, err |-> NoErr]

----------------------------------------------------------------------------
(* Instance Provisioner: the machine scope and cluster scope createInstance reads *)

RoleControlPlane == "controlplane"
RoleNode == "node"

\* A role that is neither of the two the provisioner knows.
RoleOther == "bastion"

Roles == {RoleControlPlane, RoleNode, RoleOther}

\* A configuration with every dependency in place; the other configurations differ
\* from it in the named fields.
\*   iam      which of IAMInstanceProfile.ID / .ARN is set ("id", "arn", "none")
\*   ami      MachineConfig.AMI.ID, or Null
\*   subnet   MachineConfig.Subnet: "nil", "id" (Subnet.ID set) or "filters"
\*   az       MachineConfig.Placement.AvailabilityZone
\*   priv     s.scope.Subnets().FilterPrivate(), in order
\*   cc, caCert, caKey   ClusterConfig != nil, and its CACertificate / CAPrivateKey non-empty
\*   net, dns            Network() != nil, and its APIServerELB.DNSName non-empty
\*   cluster  s.scope.Scope.Cluster != nil
\*   cpSG, nodeSG        Scope.SecurityGroups() holds the control-plane / node group
\*   sgs      s.scope.SecurityGroups(): the cluster-level group ids
\*   secret   MachineConfig.UserDataSecret != nil
\*   key      MachineConfig.KeyName
BaseConfig ==
    [role |-> RoleNode, iam |-> "id", ami |-> "ami-1", subnet |-> "nil", subnetID |-> "sn-x",
     az |-> "", priv |-> <<"sn-1", "sn-2">>, cc |-> TRUE, caCert |-> TRUE, caKey |-> TRUE,
     net |-> TRUE, dns |-> TRUE, cluster |-> TRUE, cpSG |-> TRUE, nodeSG |-> TRUE,
     sgs |-> <<"sg-a", "sg-b">>, secret |-> FALSE, key |-> ""]

PrivateSubnetLists == {<<>>, <<"sn-1", "sn-2">>, <<"sn-2", "sn-1">>}

SecurityGroupLists == {<<>>, <<"sg-a", "sg-b">>}

\* The network placement: no subnet configuration (with each private inventory), an
\* explicit id, or filters with and without an availability zone.
Placements ==
    {[subnet |-> "nil", az |-> "", priv |-> p] : p \in PrivateSubnetLists}
    \cup {[subnet |-> "id", az |-> "", priv |-> <<"sn-1", "sn-2">>]}
    \cup {[subnet |-> "filters", az |-> a, priv |-> <<"sn-1", "sn-2">>] : a \in {"", "az-1"}}

\* The cluster's CA material: no cluster config, or one with or without each part.
CAMaterials ==
    {[cc |-> FALSE, caCert |-> FALSE, caKey |-> FALSE]}
    \cup {[cc |-> TRUE, caCert |-> c, caKey |-> k] : c, k \in BOOLEAN}

\* The API-server load balancer: no network object, or one with or without a DNS name.
LoadBalancers ==
    {[net |-> FALSE, dns |-> FALSE], [net |-> TRUE, dns |-> FALSE], [net |-> TRUE, dns |-> TRUE]}

\* What each role's branch reads beyond the above; a role is given only the fields
\* its branch reads, the others stay as in BaseConfig.
RoleParts ==
    {[role |-> RoleControlPlane, cluster |-> c, cpSG |-> g, nodeSG |-> TRUE,
      sgs |-> <<"sg-a", "sg-b">>, secret |-> FALSE] : c, g \in BOOLEAN}
    \cup {[role |-> RoleNode, cluster |-> c, cpSG |-> TRUE, nodeSG |-> g, sgs |-> l, secret |-> s] :
            c, g, s \in BOOLEAN, l \in SecurityGroupLists}
    \cup {[role |-> RoleOther, cluster |-> TRUE, cpSG |-> TRUE, nodeSG |-> TRUE,
           sgs |-> <<"sg-a", "sg-b">>, secret |-> FALSE]}

\* The image, key pair and IAM profile settings, varied on their own.
Extras ==
    {[iam |-> "id", ami |-> "ami-1", key |-> ""],
     [iam |-> "arn", ami |-> Null, key |-> "key-1"],
     [iam |-> "none", ami |-> "ami-1", key |-> ""]}

\* The configurations createInstance is run on.
Configs ==
    {[role |-> r.role, iam |-> x.iam, ami |-> x.ami, subnet |-> p.subnet, subnetID |-> "sn-x",
      az |-> p.az, priv |-> p.priv, cc |-> ca.cc, caCert |-> ca.caCert, caKey |-> ca.caKey,
      net |-> lb.net, dns |-> lb.dns, cluster |-> r.cluster, cpSG |-> r.cpSG,
      nodeSG |-> r.nodeSG, sgs |-> r.sgs, secret |-> r.secret, key |-> x.key] :
        r \in RoleParts, p \in Placements, ca \in CAMaterials, lb \in LoadBalancers, x \in Extras}

\* The configurations the orchestrator is run on: a node with every dependency in
\* place, and the same node while the cluster has no CA certificate yet.
OrchConfigs == {BaseConfig, [BaseConfig EXCEPT !.caCert = FALSE]}

\* What the calls createInstance makes before the create call may answer:
\*   fail     the one call that fails, if any
\*   subnets  the subnets DescribeSubnets returns, in order
\*   hasKey   whether the user-data secret holds the "userData" field
FailPoints == {"none", "ami", "az", "subnets", "cpUserData", "secret", "certHash", "nodeUserData"}

SubnetAnswers == {<<>>, <<"sn-f1", "sn-f2">>}

Answers == [fail : FailPoints, subnets : SubnetAnswers, hasKey : BOOLEAN]

----------------------------------------------------------------------------
(* Instance Provisioner: createInstance up to its call of runInstance *)

\* What createInstance has to say when it stops or goes on to runInstance:
\*   err       the error, or NoErr to go on
\*   ret       the instance returned with the error (NoInstance, or PartialInstance)
\*   input     <<descriptor>> as built so far, <<>> before there is one
\*   roleStep  whether a role-specific security-group or user-data step was taken
Stop(err, ret, input, roleStep) ==
    [err |-> err, ret |-> ret, input |-> input, roleStep |-> roleStep]

\* The zero v1alpha1.NetworkInterface.
ZeroNetworkInterface ==
    [DeviceIndex |-> Null, AssociatePublicIpAddress |-> Null, SubnetId |-> Null, Groups |-> <<>>]

\* The IAM profile: the ID if set, else the ARN dereferenced.
IAMProfileOf(cfg) == IF cfg.iam = "id" THEN "profile-id" ELSE "profile-arn"

\* Variant: the canonical tags are built for the legacy cluster id, not the cluster's name.
InstanceTagsForClusterID(m, cfg) ==
    MapSet(MapSet(Build(ClusterID, ResourceLifecycleOwned, m, cfg.role),
                  "clusterid", ClusterID),
           NameKubernetesClusterPrefix \o ClusterID, "owned")

\* Variant: the canonical tags are built without the machine's name.
InstanceTagsWithoutName(m, cfg) ==
    MapSet(MapSet(Build(ClusterName, ResourceLifecycleOwned, Null, cfg.role),
                  "clusterid", ClusterID),
           NameKubernetesClusterPrefix \o ClusterID, "owned")

\* Variant: the canonical tags alone, without the legacy tags.
InstanceTagsCanonicalOnly(m, cfg) == Build(ClusterName, ResourceLifecycleOwned, m, cfg.role)

\* The tags of a new instance: the canonical tags and the two legacy tags.
InstanceTags(m, cfg) ==
    MapSet(MapSet(Build(ClusterName, ResourceLifecycleOwned, m, cfg.role),
                  "clusterid", ClusterID),
           NameKubernetesClusterPrefix \o ClusterID, "owned")

\* The descriptor with its type, IAM profile and tags.
NewInput(m, cfg) ==
    [Type |-> "m4.large", IAMProfile |-> IAMProfileOf(cfg), Tags |-> InstanceTags(m, cfg),
     ImageID |-> "", SubnetID |-> "", SecurityGroupIDs |-> <<>>, NetworkInterfaces |-> <<>>,
     UserData |-> Null, KeyName |-> Null]

\* Variant: a failed lookup of the default image is passed over.
ImageOfFailureIgnored(cfg, a) ==
    IF cfg.ami # Null THEN [err |-> NoErr, ImageID |-> cfg.ami]
    ELSE IF a.fail = "ami" THEN [err |-> NoErr, ImageID |-> ""]
    ELSE [err |-> NoErr, ImageID |-> "ami-default"]

\* The image: the configured id, or the default image's lookup.
ImageOf(cfg, a) ==
    IF cfg.ami # Null THEN [err |-> NoErr, ImageID |-> cfg.ami]
    ELSE IF a.fail = "ami" THEN [err |-> New("failed to find ami"), ImageID |-> ""]
    ELSE [err |-> NoErr, ImageID |-> "ami-default"]

\* The placement: the interface built for an explicit subnet configuration, or the
\* first private subnet as the descriptor's flat SubnetID.
PlacementOf(m, cfg, a) ==
    IF cfg.subnet # "nil"
    THEN IF cfg.subnet = "id"
         THEN [err |-> NoErr, SubnetID |-> "",
               ni |-> [DeviceIndex |-> "0", AssociatePublicIpAddress |-> Null,
                       SubnetId |-> cfg.subnetID, Groups |-> <<>>]]
         ELSE IF cfg.az # "" /\ a.fail = "az"
         THEN [err |-> New("error describing availability zones"), SubnetID |-> "",
               ni |-> ZeroNetworkInterface]
         ELSE IF a.fail = "subnets"
         THEN [err |-> New("error describing subnets"), SubnetID |-> "",
               ni |-> ZeroNetworkInterface]
         ELSE [err |-> NoErr, SubnetID |-> "",
               ni |-> [DeviceIndex |-> "0", AssociatePublicIpAddress |-> Null,
                       SubnetId |-> IF a.subnets = <<>> THEN "" ELSE a.subnets[1],
                       Groups |-> <<>>]]
    ELSE IF Len(cfg.priv) = 0
         THEN [err |-> NewFailedDependency(New("failed to run machine, no subnets available")),
               SubnetID |-> "", ni |-> ZeroNetworkInterface]
         ELSE [err |-> NoErr, SubnetID |-> cfg.priv[1], ni |-> ZeroNetworkInterface]

\* Variant: the load balancer's DNS name is not required.
PreconditionsWithoutELB(cfg) ==
    IF cfg.cc /\ ~cfg.caCert
    THEN NewFailedDependency(New("failed to run controlplane, missing CACertificate"))
    ELSE NoErr

\* The two preconditions checked for every role, each only on an object that is there.
Preconditions(cfg) ==
    IF cfg.cc /\ ~cfg.caCert
    THEN NewFailedDependency(New("failed to run controlplane, missing CACertificate"))
    ELSE IF cfg.net /\ ~cfg.dns
    THEN NewFailedDependency(New("failed to run controlplane, APIServer ELB not available"))
    ELSE NoErr

\* The interface's groups: one pointer per group, each to the loop's one variable
\* (&group, the variable being shared by the iterations in Go before 1.22), which
\* holds the last group when the loop is over.
InterfaceGroups(ids) == [k \in 1..Len(ids) |-> ids[Len(ids)]]

\* The control-plane branch.
ControlPlaneStep(cfg, a, input) ==
    IF ~cfg.cpSG
    THEN Stop(NewFailedDependency(New("failed to run controlplane, security group not available")),
              NoInstance, <<input>>, TRUE)
    ELSE IF ~cfg.cc THEN Stop(Panic, NoInstance, <<input>>, TRUE)
    ELSE IF ~cfg.caKey
    THEN Stop(NewFailedDependency(New("failed to run controlplane, missing CAPrivateKey")),
              NoInstance, <<input>>, TRUE)
    ELSE IF ~cfg.net \/ ~cfg.cluster THEN Stop(Panic, NoInstance, <<input>>, TRUE)
    ELSE IF a.fail = "cpUserData"
    THEN Stop(New("failed to generate controlplane user data"), PartialInstance, <<input>>, TRUE)
    ELSE Stop(NoErr, NoInstance,
              <<[input EXCEPT !.UserData = "controlplane-userdata",
                              !.SecurityGroupIDs = Append(@, "sg-controlplane")]>>, TRUE)

\* The node branch; ni is the interface built by the placement.
NodeStep(cfg, a, input, ni) ==
    IF cfg.cluster /\ ~cfg.nodeSG THEN Stop(Panic, NoInstance, <<input>>, TRUE)
    ELSE
    LET ids == input.SecurityGroupIDs
               \o (IF cfg.cluster THEN <<"sg-node">> ELSE <<>>) \o cfg.sgs
        withNet == [input EXCEPT !.SecurityGroupIDs = ids,
                                 !.NetworkInterfaces =
                                     <<[ni EXCEPT !.Groups = @ \o InterfaceGroups(ids)]>>]
    IN  IF ~cfg.cluster /\ cfg.secret
        THEN IF a.fail = "secret"
             THEN Stop(New("failed to get user data secret"), PartialInstance, <<withNet>>, TRUE)
             ELSE IF a.hasKey
             THEN Stop(NoErr, NoInstance,
                       <<[withNet EXCEPT !.UserData = "base64(secret-userdata)"]>>, TRUE)
             ELSE Stop(NoErr, NoInstance, <<withNet>>, TRUE)
        ELSE IF ~cfg.cc THEN Stop(Panic, NoInstance, <<withNet>>, TRUE)
             ELSE IF a.fail = "certHash"
             THEN Stop(New("failed to hash certificate"), PartialInstance, <<withNet>>, TRUE)
             ELSE IF ~cfg.net THEN Stop(Panic, NoInstance, <<withNet>>, TRUE)
             ELSE IF a.fail = "nodeUserData"
             THEN Stop(New("failed to generate node user data"), PartialInstance, <<withNet>>, TRUE)
             ELSE Stop(NoErr, NoInstance, <<[withNet EXCEPT !.UserData = "node-userdata"]>>, TRUE)

\* The key pair: the configured key name, or none.
WithKeyName(cfg, input) ==
    IF cfg.key # "" THEN [input EXCEPT !.KeyName = cfg.key] ELSE input

\* createInstance of machine m under configuration cfg, the calls it makes answering
\* a, up to its call of runInstance: the error it stops with, or the descriptor it
\* passes on.
createInstance(m, cfg, a) ==
    IF cfg.iam = "none" THEN Stop(Panic, NoInstance, <<>>, FALSE)
    ELSE
    LET image == ImageOf(cfg, a)
        place == PlacementOf(m, cfg, a)
        input == [NewInput(m, cfg) EXCEPT !.ImageID = image.ImageID, !.SubnetID = place.SubnetID]
        pre   == Preconditions(cfg)
        role  == IF cfg.role = RoleControlPlane THEN ControlPlaneStep(cfg, a, input)
                 ELSE IF cfg.role = RoleNode THEN NodeStep(cfg, a, input, place.ni)
                 ELSE Stop(NoErr, NoInstance, <<input>>, FALSE)
    IN  IF image.err # NoErr THEN Stop(image.err, NoInstance, <<>>, FALSE)
        ELSE IF place.err # NoErr THEN Stop(place.err, NoInstance, <<>>, FALSE)
        ELSE IF pre # NoErr THEN Stop(pre, NoInstance, <<>>, FALSE)
        ELSE IF role.err # NoErr THEN role
        ELSE Stop(NoErr, NoInstance, <<WithKeyName(cfg, role.input[1])>>, role.roleStep)

----------------------------------------------------------------------------
(* Instance Provisioner: runInstance *)

MinCount == 1
MaxCount == 1

\* Variant: the flat subnet is set whether or not there are network interfaces.
RunInstancesInputAlwaysSubnet(i) ==
    [InstanceType |-> i.Type, ImageId |-> i.ImageID, KeyName |-> i.KeyName,
     MaxCount |-> MaxCount, MinCount |-> MinCount, UserData |-> i.UserData,
     SubnetId |-> i.SubnetID,
     SecurityGroupIds |-> IF Len(i.NetworkInterfaces) = 0 THEN i.SecurityGroupIDs ELSE <<>>,
     NetworkInterfaces |-> i.NetworkInterfaces,
     IamInstanceProfile |-> IF i.IAMProfile # "" THEN i.IAMProfile ELSE Null,
     TagSpecifications |->
         (IF DOMAIN i.Tags # {} THEN <<[ResourceType |-> "instance", Tags |-> i.Tags]>> ELSE <<>>)
         \o <<[ResourceType |-> "volume", Tags |-> ("clusterid" :> ClusterID)]>>]

\* The ec2.RunInstancesInput runInstance builds from descriptor i. A field left unset
\* is Null (a pointer) or <<>> (a slice).
RunInstancesInput(i) ==
    [InstanceType |-> i.Type, ImageId |-> i.ImageID, KeyName |-> i.KeyName,
     MaxCount |-> MaxCount, MinCount |-> MinCount, UserData |-> i.UserData,
     SubnetId |-> IF Len(i.NetworkInterfaces) = 0 THEN i.SubnetID ELSE Null,
     SecurityGroupIds |-> IF Len(i.NetworkInterfaces) = 0 THEN i.SecurityGroupIDs ELSE <<>>,
     NetworkInterfaces |->
         [k \in 1..Len(i.NetworkInterfaces) |->
             [Groups |-> i.NetworkInterfaces[k].Groups,
              DeviceIndex |-> i.NetworkInterfaces[k].DeviceIndex,
              AssociatePublicIpAddress |-> i.NetworkInterfaces[k].AssociatePublicIpAddress,
              SubnetId |-> i.NetworkInterfaces[k].SubnetId]],
     IamInstanceProfile |-> IF i.IAMProfile # "" THEN i.IAMProfile ELSE Null,
     TagSpecifications |->
         (IF DOMAIN i.Tags # {} THEN <<[ResourceType |-> "instance", Tags |-> i.Tags]>> ELSE <<>>)
         \o <<[ResourceType |-> "volume", Tags |-> ("clusterid" :> ClusterID)]>>]

\* The tags the backend gives a new instance: those of the request's instance
\* tag specification.
TagsOfRequest(req) ==
    LET specs == SelectSeq(req.TagSpecifications, LAMBDA t : t.ResourceType = "instance")
    IN  IF specs = <<>> THEN <<>> ELSE specs[1].Tags

\* What RunInstances may answer: a fault, a reservation without instances, or (while
\* the backend has room) a reservation with the one new instance.
RunOutcomes ==
    {"fault", "empty"} \cup (IF Len(instances) < MaxInstances THEN {"created"} ELSE {})

\* Variant: a reservation without instances is reported as a failed dependency.
RunErrorEmptyAsDependency(outcome) ==
    IF outcome = "fault" THEN Wrap(AwsErr("RequestError"), "failed to run instance")
    ELSE IF outcome = "empty"
    THEN NewFailedDependency(New("no instance returned for reservation"))
    ELSE NoErr

\* Variant: a reservation without instances is not an error.
RunErrorEmptyIsFine(outcome) ==
    IF outcome = "fault" THEN Wrap(AwsErr("RequestError"), "failed to run instance") ELSE NoErr

\* The error runInstance returns after the create call.
RunError(outcome) ==
    IF outcome = "fault" THEN Wrap(AwsErr("RequestError"), "failed to run instance")
    ELSE IF outcome = "empty" THEN New("no instance returned for reservation")
    ELSE NoErr

----------------------------------------------------------------------------
(* Reconcile Orchestrator: CreateOrGetMachine's use of a lookup's return *)

\* What CreateOrGetMachine does with (instance, err) of a lookup: return the wrapped
\* error, return the instance, or go on to the next step.
AfterLookup(r, msg) ==
    IF r.err # NoErr /\ ~IsNotFound(r.err)
    THEN [done |-> TRUE, inst |-> NoInstance, err |-> Wrap(r.err, msg)]
    ELSE IF r.err = NoErr /\ r.inst # NoInstance
    THEN [done |-> TRUE, inst |-> r.inst, err |-> NoErr]
    ELSE [done |-> FALSE, inst |-> NoInstance, err |-> NoErr]

\* Variant: the tag lookup is made even when the lookup by id found the instance.
AfterLookupByIdFallsThrough(r) ==
    IF r.err # NoErr /\ ~IsNotFound(r.err)
    THEN [done |-> TRUE, inst |-> NoInstance, err |-> Wrap(r.err, "failed to look up machine by id")]
    ELSE [done |-> FALSE, inst |-> NoInstance, err |-> NoErr]

\* The lookup by the recorded id.
AfterLookupById(r) == AfterLookup(r, "failed to look up machine by id")

\* Variant: an instance found by tags does not end the invocation.
AfterLookupByTagsIgnoresFound(r) ==
    IF r.err # NoErr /\ ~IsNotFound(r.err)
    THEN [done |-> TRUE, inst |-> NoInstance,
          err |-> Wrap(r.err, "failed to query machine instance by tags")]
    ELSE [done |-> FALSE, inst |-> NoInstance, err |-> NoErr]

\* Variant: a failed tag lookup does not end the invocation.
AfterLookupByTagsIgnoresError(r) ==
    IF r.err = NoErr /\ r.inst # NoInstance
    THEN [done |-> TRUE, inst |-> r.inst, err |-> NoErr]
    ELSE [done |-> FALSE, inst |-> NoInstance, err |-> NoErr]

\* The lookup by tags.
AfterLookupByTags(r) == AfterLookup(r, "failed to query machine instance by tags")

----------------------------------------------------------------------------
(* Lifecycle Operations: TerminateInstance, TerminateInstanceAndWait *)

\* Variant: the event is recorded on the machine whether or not there is a cluster.
DeletedInstanceOnMachine(cluster) == [object |-> "machine", reason |-> "DeletedInstance"]

\* The DeletedInstance event, recorded on the cluster if the scope has one and on
\* the machine otherwise.
DeletedInstance(cluster) ==
    [object |-> IF cluster THEN "cluster" ELSE "machine", reason |-> "DeletedInstance"]

\* The ec2.TerminateInstancesInput of TerminateInstance: the one id given.
TerminateInstancesInput(instanceID) == [InstanceIds |-> <<instanceID>>]

\* Variant: the event is recorded before the terminate call has answered.
TerminateInstanceEventFirst(out, cluster) ==
    [err |-> IF out # NoErr THEN Wrap(out, "failed to terminate instance") ELSE NoErr,
     events |-> <<DeletedInstance(cluster)>>]

\* TerminateInstance on the answer `out` of TerminateInstances: the error it returns
\* and the events it records.
TerminateInstance(out, cluster) ==
    IF out # NoErr
    THEN [err |-> Wrap(out, "failed to terminate instance"), events |-> <<>>]
    ELSE [err |-> NoErr, events |-> <<DeletedInstance(cluster)>>]

\* TerminateInstanceAndWait on the answer `out` of WaitUntilInstanceTerminated.
AfterWaitUntilInstanceTerminated(out) ==
    IF out # NoErr THEN Wrap(out, "failed to wait for instance termination") ELSE NoErr

\* What TerminateInstances may answer for an id: a fault at any time, success only
\* for an instance the backend knows.
TerminateOutcomes(id) ==
    {AwsErr("RequestError")} \cup (IF Exists(id) THEN {NoErr} ELSE {AwsErr("NotFound")})

\* What WaitUntilInstanceTerminated may answer: success only once the instance is
\* terminated, a failure of the wait at any time.
WaitTerminatedOutcomes(id) ==
    {AwsErr("ResourceNotReady")}
    \cup (IF Exists(id) /\ instances[id].state = InstanceStateNameTerminated THEN {NoErr} ELSE {})

----------------------------------------------------------------------------
(* Lifecycle Operations: UpdateResourceTags *)

\* The keys and values of the tag maps the tag operations are run on.
TagKeys == {"Name", "team"}
TagValues == {"a", "b"}

\* The entries of a tag map: a value for each key of some of the keys.
TagEntries == UNION {[K -> TagValues] : K \in SUBSET TagKeys}

\* The values of a map parameter: nil, or a made map with some entries.
TagMaps == {NilMap} \cup {MakeMap(kv) : kv \in TagEntries}

\* Where UpdateResourceTags begins: the first call it has to make, if any.
UpdateResourceTagsBegin(create, remove) ==
    IF MapLen(create) > 0 THEN "createTags"
    ELSE IF MapLen(remove) > 0 THEN "deleteTags"
    ELSE "done"

\* Variant: the delete-tags call is made whatever the remove map holds.
AfterCreateTagsAlwaysDeletes(out, remove) ==
    IF out # NoErr
    THEN [pc |-> "done", err |-> Wrap(out, "failed to create tags for resource")]
    ELSE [pc |-> "deleteTags", err |-> NoErr]

\* Variant: the remove map is passed over once the create-tags call has succeeded.
AfterCreateTagsNeverDeletes(out, remove) ==
    IF out # NoErr
    THEN [pc |-> "done", err |-> Wrap(out, "failed to create tags for resource")]
    ELSE [pc |-> "done", err |-> NoErr]

\* UpdateResourceTags on the answer `out` of CreateTags: return the error, or go on
\* to the remove map.
AfterCreateTags(out, remove) ==
    IF out # NoErr
    THEN [pc |-> "done", err |-> Wrap(out, "failed to create tags for resource")]
    ELSE [pc |-> IF MapLen(remove) > 0 THEN "deleteTags" ELSE "done", err |-> NoErr]

\* UpdateResourceTags on the answer `out` of DeleteTags.
AfterDeleteTags(out) ==
    IF out # NoErr THEN Wrap(out, "failed to delete tags for resource") ELSE NoErr

\* What CreateTags / DeleteTags may answer for a resource id.
TagOutcomes(id) ==
    {AwsErr("RequestError")} \cup (IF Exists(id) THEN {NoErr} ELSE {AwsErr("NotFound")})

\* The backend's tags of a resource after CreateTags: the given tags added or
\* overwritten.
TagsAfterCreate(tags, create) ==
    [k \in DOMAIN tags \cup DOMAIN create.kv |->
        IF k \in DOMAIN create.kv THEN create.kv[k] ELSE tags[k]]

\* The backend's tags of a resource after DeleteTags: a given tag is deleted if the
\* resource holds its key with the given value.
TagsAfterDelete(tags, remove) ==
    [k \in {j \in DOMAIN tags : ~(j \in DOMAIN remove.kv /\ remove.kv[j] = tags[j])} |-> tags[k]]

----------------------------------------------------------------------------
(* State *)

\* An invocation of CreateOrGetMachine for a machine:
\*   pc           "idle", "byId", "byTags", "create", "run", "wait" or "done"
\*   statusId     machine.MachineStatus.InstanceID (NoInstance: nil)
\*   cfg          the machine and cluster configuration
\*   byId, byTags what InstanceIfExists / InstanceByTags returned
\*   entered      whether createInstance was invoked
\*   built        what createInstance had when it stopped or called runInstance
\*   request      <<the create request issued>>
\*   runs, waits  the create and wait-until-running calls issued
\*   waitErr      the error of the wait-until-running call
\*   created      the instance the create call returned
\*   result       what the invocation returned
\*   events       the CreatedInstance events recorded
\*   liveAtStart  the pending or running instances created for the machine, at its start
Invocation(pc, statusId, cfg, entered, live) ==
    [pc |-> pc, statusId |-> statusId, cfg |-> cfg, byId |-> NotCalled, byTags |-> NotCalled,
     entered |-> entered, built |-> Stop(NoErr, NoInstance, <<>>, FALSE), request |-> <<>>,
     runs |-> 0, waits |-> 0, waitErr |-> NoErr, created |-> NoInstance,
     result |-> [inst |-> NoInstance, err |-> NoErr], events |-> 0, liveAtStart |-> live]

Idle == Invocation("idle", NoInstance, BaseConfig, FALSE, <<>>)

\* An invocation of TerminateInstance (andWait: of TerminateInstanceAndWait):
\*   pc            "idle", "terminate", "wait" or "done"
\*   id            the instance id given
\*   cluster       s.scope.Cluster != nil
\*   terminates, waits   the terminate and wait-until-terminated calls issued
\*   request       <<the input of the terminate call issued>>
\*   terminateOut, waitOut   what the two calls answered
\*   events        the events recorded
\*   result        the error returned
Termination(pc, id, andWait, cluster) ==
    [pc |-> pc, id |-> id, andWait |-> andWait, cluster |-> cluster, terminates |-> 0,
     request |-> <<>>, waits |-> 0, terminateOut |-> NoErr, waitOut |-> NoErr, events |-> <<>>, result |-> NoErr]

IdleTermination == Termination("idle", NoInstance, FALSE, FALSE)

\* An invocation of UpdateResourceTags:
\*   pc            "idle", "createTags", "deleteTags" or "done"
\*   id            the resource id given
\*   create, remove   the two maps given
\*   desired       the tags the caller wants the resource to have, when it computed
\*                 the two maps from them
\*   createCalls, deleteCalls   the create-tags and delete-tags calls issued
\*   createOut, deleteOut   what the two calls answered
\*   result        the error returned
TagUpdate(pc, id, create, remove) ==
    [pc |-> pc, id |-> id, create |-> create, remove |-> remove, desired |-> NilMap,
     createCalls |-> 0,
     deleteCalls |-> 0, createOut |-> NoErr, deleteOut |-> NoErr, result |-> NoErr]

IdleTagUpdate == TagUpdate("idle", NoInstance, NilMap, NilMap)

\* An application of a function of package tags:
\*   recv, arg     the receiver and the argument, as they are (after the call, if any)
\*   given         <<receiver, argument>> as they were given
\*   fn            "none", "Difference" or "Equals"
\*   result        what the function returned
Application(recv, arg) ==
    [recv |-> recv, arg |-> arg, given |-> <<recv, arg>>, fn |-> "none", result |-> NilMap]

\* An application of a lookup of the Instance Finder to a describe answer:
\*   out           the answer of DescribeInstances
\*   fn            "none", "InstanceByTags" or "InstanceIfExists"
\*   result        what the lookup returned
Lookup(out) ==
    [out |-> out, fn |-> "none", result |-> [inst |-> NoInstance, err |-> NoErr]]

IdleLookup == Lookup([err |-> NoErr, Reservations |-> <<>>])

IdleOthers ==
    /\ term = IdleTermination
    /\ tagging = IdleTagUpdate
    /\ maps = Application(NilMap, NilMap)
    /\ lookup = IdleLookup

Init ==
    /\ instances = <<>>
    /\ call = [m \in Machines |-> Idle]
    /\ IdleOthers

\* createInstance alone: machine m1, any configuration.
InitCreate ==
    /\ instances = <<>>
    /\ \E cfg \in Configs :
         call = [m \in Machines |->
                   IF m = "m1" THEN Invocation("create", NoInstance, cfg, TRUE, <<>>) ELSE Idle]
    /\ IdleOthers

Return(c, inst, err) == [c EXCEPT !.pc = "done", !.result = [inst |-> inst, err |-> err]]

----------------------------------------------------------------------------
(* Actions *)

\* CreateOrGetMachine is invoked for machine m, whose status records sid, once every
\* earlier invocation has returned; what earlier invocations returned is forgotten.
Start(m) ==
    /\ \A k \in Machines : call[k].pc \in {"idle", "done"}
    /\ \E sid \in {NoInstance} \cup InstanceIds, cfg \in OrchConfigs :
         call' = [k \in Machines |->
                    IF k = m
                    THEN Invocation(IF sid # NoInstance THEN "byId" ELSE "byTags", sid, cfg,
                                    FALSE, Ascending(LiveFor(m)))
                    ELSE Idle]
    /\ UNCHANGED <<instances, others>>

\* InstanceIfExists(status id) and what CreateOrGetMachine does with its return.
LookupById(m) ==
    /\ call[m].pc = "byId"
    /\ \E out \in DescribeOutcomes(MatchById(call[m].statusId)) :
         LET r == InstanceIfExists(out)
             next == AfterLookupById(r)
             c == [call[m] EXCEPT !.byId = [called |-> TRUE, out |-> out.err,
                                            inst |-> r.inst, err |-> r.err]]
         IN  call' = [call EXCEPT ![m] =
                        IF next.done THEN Return(c, next.inst, next.err)
                        ELSE [c EXCEPT !.pc = "byTags"]]
    /\ UNCHANGED <<instances, others>>

\* InstanceByTags(machine) and what CreateOrGetMachine does with its return.
LookupByTags(m) ==
    /\ call[m].pc = "byTags"
    /\ \E out \in DescribeOutcomes(MatchByTags(ClusterName, m)) :
         LET r == InstanceByTags(out)
             next == AfterLookupByTags(r)
             c == [call[m] EXCEPT !.byTags = [called |-> TRUE, out |-> out.err,
                                              inst |-> r.inst, err |-> r.err]]
         IN  call' = [call EXCEPT ![m] =
                        IF next.done THEN Return(c, next.inst, next.err)
                        ELSE [c EXCEPT !.pc = "create", !.entered = TRUE]]
    /\ UNCHANGED <<instances, others>>

\* createInstance up to its call of runInstance.
CreateInstancePrepare(m) ==
    /\ call[m].pc = "create"
    /\ \E a \in Answers :
         LET b == createInstance(m, call[m].cfg, a)
             c == [call[m] EXCEPT !.built = b]
         IN  call' = [call EXCEPT ![m] =
                        IF b.err # NoErr THEN Return(c, b.ret, b.err)
                        ELSE [c EXCEPT !.pc = "run"]]
    /\ UNCHANGED <<instances, others>>

\* runInstance: the create call and what runInstance does with its answer.
RunInstances(m) ==
    /\ call[m].pc = "run"
    /\ \E outcome \in RunOutcomes :
         LET req == RunInstancesInput(call[m].built.input[1])
             id == Len(instances) + 1
             c == [call[m] EXCEPT !.request = <<req>>, !.runs = @ + 1]
         IN  IF outcome = "created"
             THEN /\ instances' = Append(instances,
                                         [state |-> InstanceStateNamePending,
                                          tags |-> TagsOfRequest(req), by |-> m])
                  /\ call' = [call EXCEPT ![m] = [c EXCEPT !.pc = "wait", !.created = id]]
             ELSE /\ instances' = instances
                  /\ call' = [call EXCEPT ![m] = Return(c, NoInstance, RunError(outcome))]
    /\ UNCHANGED others

\* runInstance: the wait-until-running call, whose error is dropped, and the return
\* of runInstance and createInstance with the CreatedInstance event.
WaitUntilInstanceRunning(m) ==
    /\ call[m].pc = "wait"
    /\ \E ok \in BOOLEAN :
         /\ ok => instances[call[m].created].state = InstanceStateNameRunning
         /\ call' = [call EXCEPT ![m] =
                       Return([call[m] EXCEPT !.waits = @ + 1, !.events = @ + 1,
                                             !.waitErr = IF ok THEN NoErr
                                                         ELSE AwsErr("ResourceNotReady")],
                              SDKToInstance(call[m].created), NoErr)]
    /\ UNCHANGED <<instances, others>>

\* The backend's own progress: a pending instance runs, a stopping one is gone.
BackendProgress(id) ==
    /\ Exists(id)
    /\ instances[id].state \in {InstanceStateNamePending, InstanceStateNameShuttingDown}
    /\ instances' = [instances EXCEPT ![id].state =
                       IF @ = InstanceStateNamePending THEN InstanceStateNameRunning
                       ELSE InstanceStateNameTerminated]
    /\ UNCHANGED <<call, others>>

\* An instance is terminated from outside the invocation (the machine is deleted,
\* the instance is reclaimed): it leaves the pending and running states.
InstanceTerminates(id) ==
    /\ IsLive(id)
    /\ instances' = [instances EXCEPT ![id].state = InstanceStateNameShuttingDown]
    /\ UNCHANGED <<call, others>>

Next ==
    \/ \E m \in Machines : Start(m)
    \/ \E m \in Machines : LookupById(m)
    \/ \E m \in Machines : LookupByTags(m)
    \/ \E m \in Machines : CreateInstancePrepare(m)
    \/ \E m \in Machines : RunInstances(m)
    \/ \E m \in Machines : WaitUntilInstanceRunning(m)
    \/ \E id \in InstanceIds : BackendProgress(id)
    \/ \E id \in InstanceIds : InstanceTerminates(id)

Spec == Init /\ [][Next]_vars

NextCreate ==
    \/ CreateInstancePrepare("m1")
    \/ RunInstances("m1")
    \/ WaitUntilInstanceRunning("m1")
    \/ \E id \in InstanceIds : BackendProgress(id)

SpecCreate == InitCreate /\ [][NextCreate]_vars

----------------------------------------------------------------------------
(* Properties of the orchestrator (Spec) *)

\* Whether a describe call of invocation c answered with a backend fault.
LookupFaulted(c) ==
    \/ c.byId.called /\ c.byId.out.code \notin {"nil", "NotFound"}
    \/ c.byTags.called /\ c.byTags.out.code \notin {"nil", "NotFound"}

\* C1: across sequential invocations, retries after errors and invocations with any
\* recorded status id included, the instances ever created for a machine are at most
\* one more than those of them that have left the pending and running states: while
\* none is terminated, at most one is ever created.
C1_AtMostOneInstance ==
    \A m \in Machines :
        Cardinality(CreatedFor(m)) <= 1 + Cardinality(CreatedFor(m) \ LiveFor(m))

\* An invocation with no recorded id found the machine's one instance by its tags
\* and returned it, with no second instance created.
C1_Witness ==
    \E m \in Machines :
        /\ call[m].pc = "done" /\ call[m].statusId = NoInstance
        /\ call[m].byTags.inst # NoInstance /\ call[m].result.inst = call[m].byTags.inst
        /\ CreatedFor(m) = {call[m].result.inst}

\* C2: an invocation that starts when an earlier one has created instance I for the
\* machine, with I still pending or running and the status recording I's id or
\* nothing, never invokes createInstance and issues no create call; it returns I,
\* unless a describe call faulted, and then it returns that error.
C2_Idempotent ==
    \A m \in Machines :
        LET c == call[m]
        IN  (/\ c.pc # "idle" /\ c.liveAtStart # <<>> /\ IsLive(c.liveAtStart[1])
             /\ c.statusId \in {NoInstance, c.liveAtStart[1]})
            => /\ c.runs = 0 /\ ~c.entered /\ c.created = NoInstance
               /\ c.pc \in {"byId", "byTags", "done"}
               /\ c.pc = "done" =>
                    IF LookupFaulted(c)
                    THEN c.result.inst = NoInstance /\ c.result.err # NoErr
                    ELSE c.result = [inst |-> c.liveAtStart[1], err |-> NoErr]

\* The id was never persisted and the instance created earlier is recovered by tags.
C2_Witness ==
    \E m \in Machines :
        LET c == call[m]
        IN  /\ c.pc = "done" /\ c.statusId = NoInstance /\ c.liveAtStart # <<>>
            /\ c.byTags.called /\ c.result = [inst |-> c.liveAtStart[1], err |-> NoErr]
            /\ c.runs = 0

\* C3: when the status records an id and the lookup by id finds an instance, the
\* invocation returns that instance, the one with the recorded id, without a
\* describe-by-tags call and without a create call.
C3_LookupPriority ==
    \A m \in Machines :
        LET c == call[m]
        IN  (c.statusId # NoInstance /\ c.byId.called /\ c.byId.inst # NoInstance)
            => /\ c.pc = "done"
               /\ c.result = [inst |-> c.statusId, err |-> NoErr]
               /\ ~c.byTags.called /\ ~c.entered /\ c.runs = 0

\* The recorded id's instance is returned while a different instance carries the
\* machine's tags.
C3_Witness ==
    \E m \in Machines :
        LET c == call[m]
        IN  /\ c.pc = "done" /\ c.statusId # NoInstance /\ c.result.inst = c.statusId
            /\ \E j \in 1..Len(instances) :
                 j # c.statusId /\ IsLive(j) /\ MatchesTags(j, ClusterName, m)

\* C4: createInstance is invoked (and a create call issued) only after the lookup by
\* id, if an id is recorded, and the lookup by tags both returned no instance and
\* no error; a lookup that returns an error ends the invocation with an error and
\* without createInstance or a create call; a recorded id that is not found leads to
\* the lookup by tags.
C4_CreateOnlyAfterBothLookups ==
    \A m \in Machines :
        LET c == call[m]
            nothing(r) == r.called /\ r.inst = NoInstance /\ r.err = NoErr
        IN  /\ c.runs > 0 => c.entered
            /\ c.entered => /\ c.statusId # NoInstance => nothing(c.byId)
                            /\ nothing(c.byTags)
            /\ (c.byId.err # NoErr \/ c.byTags.err # NoErr)
               => /\ c.pc = "done" /\ c.result.inst = NoInstance /\ c.result.err # NoErr
                  /\ ~c.entered /\ c.runs = 0
            /\ (c.statusId # NoInstance /\ nothing(c.byId))
               => c.pc = "byTags" \/ c.byTags.called

\* The recorded id is not found, the tags match nothing, and the instance is created.
C4_Witness ==
    \E m \in Machines :
        LET c == call[m]
        IN  /\ c.statusId # NoInstance /\ c.byId.out.code = "NotFound"
            /\ c.byTags.called /\ c.entered /\ c.runs = 1 /\ c.created # NoInstance

\* C5: InstanceIfExists and InstanceByTags return (no instance, no error) when the
\* describe call reports not-found, (no instance, error) when it fails otherwise,
\* and never an instance together with an error.
C5_LookupsFailSoftOnNotFound ==
    \A m \in Machines :
        \A r \in {call[m].byId, call[m].byTags} :
            r.called =>
                /\ r.out.code = "NotFound" => r.inst = NoInstance /\ r.err = NoErr
                /\ r.out.code \notin {"nil", "NotFound"} => r.inst = NoInstance /\ r.err # NoErr
                /\ ~(r.inst # NoInstance /\ r.err # NoErr)

\* Both lookups of one invocation met a not-found answer and returned nothing.
C5_Witness ==
    \E m \in Machines :
        /\ call[m].byId.called /\ call[m].byId.out.code = "NotFound"
        /\ call[m].byTags.called /\ call[m].byTags.out.code = "NotFound"
        /\ call[m].byId.err = NoErr /\ call[m].byTags.err = NoErr

----------------------------------------------------------------------------
(* Properties of the provisioner (SpecCreate) *)

\* Whether the subnet is where the request places the instance: as its flat SubnetId
\* or as the SubnetId of one of its network interfaces.
PlacedIn(req, subnet) ==
    \/ req.SubnetId = subnet
    \/ \E k \in 1..Len(req.NetworkInterfaces) : req.NetworkInterfaces[k].SubnetId = subnet

\* The errors of the steps createInstance takes before its two preconditions.
IsEarlierFailure(err) ==
    \/ err = Panic
    \/ err.msg \in {"failed to find ami", "error describing availability zones",
                    "error describing subnets"}

\* C6: an invocation of createInstance that ends in a failed-dependency error has
\* issued no create call: no request was built and no instance was created.
C6_FailedDependencyBeforeCreate ==
    \A m \in Machines :
        LET c == call[m]
        IN  (c.pc = "done" /\ IsFailedDependency(c.result.err))
            => c.runs = 0 /\ c.request = <<>> /\ c.created = NoInstance /\ CreatedFor(m) = {}

\* A control-plane machine without the CA private key ends in a failed dependency.
C6_Witness ==
    \E m \in Machines :
        LET c == call[m]
        IN  /\ c.pc = "done" /\ c.cfg.role = RoleControlPlane /\ c.cfg.cc /\ ~c.cfg.caKey
            /\ IsFailedDependency(c.result.err)
            /\ c.result.err.msg = "failed to run controlplane, missing CAPrivateKey"

C8_NetworkInterfaceExclusivity ==
    \A m \in Machines :
        call[m].request # <<>> =>
            LET req == call[m].request[1]
                flat == req.SubnetId # Null \/ req.SecurityGroupIds # <<>>
            IN  flat # (Len(req.NetworkInterfaces) > 0)

\* A request with a network interface, built from a descriptor that also holds a
\* flat subnet and flat security groups.
C8_Witness ==
    \E m \in Machines :
        /\ call[m].request # <<>>
        /\ Len(call[m].request[1].NetworkInterfaces) = 1
        /\ call[m].built.input[1].SubnetID = "sn-1"
        /\ call[m].built.input[1].SecurityGroupIDs # <<>>

\* C9 as claimed: for a node without subnet configuration, the private subnets being
\* [sn-1, sn-2], the create request places the instance in sn-1 and its instance
\* tags hold the cluster-ownership tag with value owned and the role tag node.
C9_AsClaimed ==
    \A m \in Machines :
        LET c == call[m]
        IN  (/\ c.request # <<>> /\ c.cfg.role = RoleNode /\ c.cfg.subnet = "nil"
             /\ c.cfg.priv = <<"sn-1", "sn-2">>)
            => /\ PlacedIn(c.request[1], "sn-1")
               /\ HasTag(TagsOfRequest(c.request[1]), ClusterKey(ClusterName), ResourceLifecycleOwned)
               /\ HasTag(TagsOfRequest(c.request[1]), NameAWSClusterAPIRole, RoleNode)

\* C10 as claimed: for every role, a create request for a machine with an explicit
\* subnet id places the instance in that subnet.
C10_AsClaimed ==
    \A m \in Machines :
        LET c == call[m]
        IN  (c.request # <<>> /\ c.cfg.subnet = "id") => PlacedIn(c.request[1], c.cfg.subnetID)

----------------------------------------------------------------------------
(* Properties of runInstance's wait (SpecCreate) *)

\* C11 as claimed: after a create call that returned an instance, the invocation
\* returns that instance only when the wait-until-running call succeeded, and
\* returns an error, and no instance, when the wait call failed.
C11_AsClaimed ==
    \A m \in Machines :
        LET c == call[m]
        IN  (c.pc = "done" /\ c.created # NoInstance)
            => /\ c.waits = 1
               /\ IF c.waitErr = NoErr
                  THEN c.result = [inst |-> c.created, err |-> NoErr]
                  ELSE c.result.inst = NoInstance /\ c.result.err # NoErr

----------------------------------------------------------------------------
(* TerminateInstance and TerminateInstanceAndWait on a backend (SpecTerminate) *)

\* An instance earlier invocations created for machine m, in some state.
InstanceOf(m, state) == [state |-> state, tags |-> InstanceTags(m, BaseConfig), by |-> m]

\* The backends the lifecycle operations are run on: up to MaxInstances instances,
\* each of some machine and in some state.
Backends ==
    UNION {[1..n -> {InstanceOf(m, st) : m \in Machines,
                                         st \in LiveStates \cup {InstanceStateNameShuttingDown,
                                                                 InstanceStateNameTerminated}}] :
             n \in 0..MaxInstances}

InitTerminate ==
    /\ instances \in Backends
    /\ call = [m \in Machines |-> Idle]
    /\ IdleOthers

\* TerminateInstance or TerminateInstanceAndWait is invoked with an instance id, once
\* the earlier invocation has returned.
StartTerminate ==
    /\ term.pc \in {"idle", "done"}
    /\ \E id \in InstanceIds, andWait \in BOOLEAN, cluster \in BOOLEAN :
         term' = Termination("terminate", id, andWait, cluster)
    /\ UNCHANGED <<instances, call, tagging, maps, lookup>>

\* TerminateInstance: the terminate call, the event, and the return (of
\* TerminateInstanceAndWait too, when the call failed).
TerminateInstances ==
    /\ term.pc = "terminate"
    /\ \E out \in TerminateOutcomes(term.id) :
         LET input == TerminateInstancesInput(term.id)
             r == TerminateInstance(out, term.cluster)
         IN  /\ instances' = IF out = NoErr
                             THEN [i \in 1..Len(instances) |->
                                     IF IsLive(i) /\ \E k \in 1..Len(input.InstanceIds) :
                                                        input.InstanceIds[k] = i
                                     THEN [instances[i] EXCEPT !.state = InstanceStateNameShuttingDown]
                                     ELSE instances[i]]
                             ELSE instances
             /\ term' = [term EXCEPT !.terminates = @ + 1, !.terminateOut = out,
                                     !.request = <<input>>,
                                     !.events = @ \o r.events, !.result = r.err,
                                     !.pc = IF r.err # NoErr \/ ~term.andWait THEN "done"
                                            ELSE "wait"]
    /\ UNCHANGED <<call, tagging, maps, lookup>>

\* TerminateInstanceAndWait: the wait-until-terminated call and the return.
WaitUntilInstanceTerminated ==
    /\ term.pc = "wait"
    /\ \E out \in WaitTerminatedOutcomes(term.id) :
         term' = [term EXCEPT !.waits = @ + 1, !.waitOut = out, !.pc = "done",
                              !.result = AfterWaitUntilInstanceTerminated(out)]
    /\ UNCHANGED <<instances, call, tagging, maps, lookup>>

NextTerminate ==
    \/ StartTerminate
    \/ TerminateInstances
    \/ WaitUntilInstanceTerminated
    \/ \E id \in InstanceIds : BackendProgress(id)

SpecTerminate == InitTerminate /\ [][NextTerminate]_vars

\* C12: TerminateInstanceAndWait, when the terminate call fails, returns the
\* terminate error, issues no wait call and records no event; when the terminate
\* call succeeds and the wait-until-terminated call fails, it returns the wrapped
\* wait error, and exactly one DeletedInstance event has been recorded.
C12_TerminateAndWaitErrors ==
    term.andWait =>
        /\ (term.terminates = 1 /\ term.terminateOut # NoErr)
           => /\ term.pc = "done" /\ term.waits = 0 /\ term.events = <<>>
              /\ term.result = Wrap(term.terminateOut, "failed to terminate instance")
        /\ (term.waits = 1 /\ term.waitOut # NoErr)
           => /\ term.pc = "done" /\ term.terminates = 1 /\ term.terminateOut = NoErr
              /\ Len(term.events) = 1 /\ term.events[1].reason = "DeletedInstance"
              /\ term.result = Wrap(term.waitOut, "failed to wait for instance termination")
        /\ term.terminates <= 1 /\ term.waits <= 1

\* The terminate call succeeded, the instance is on its way out, and the wait failed.
C12_Witness ==
    /\ term.pc = "done" /\ term.andWait /\ term.terminateOut = NoErr
    /\ term.waits = 1 /\ term.waitOut # NoErr /\ term.result.code = "ResourceNotReady"
    /\ Len(term.events) = 1
    /\ Exists(term.id) /\ instances[term.id].state = InstanceStateNameShuttingDown

----------------------------------------------------------------------------
(* UpdateResourceTags on a backend (SpecTagging) *)

\* The backends UpdateResourceTags is run on: one running instance, with some tags.
TaggedBackends ==
    {<<[state |-> InstanceStateNameRunning, tags |-> kv, by |-> "m1"]>> : kv \in TagEntries}

InitTagging ==
    /\ instances \in TaggedBackends
    /\ call = [m \in Machines |-> Idle]
    /\ IdleOthers

\* UpdateResourceTags is invoked with a resource id, a create map and a remove map,
\* once the earlier invocation has returned; with nothing to create and nothing to
\* remove it returns at once.
StartUpdateResourceTags ==
    /\ tagging.pc \in {"idle", "done"}
    /\ \E id \in InstanceIds, create \in TagMaps, remove \in TagMaps :
         tagging' = TagUpdate(UpdateResourceTagsBegin(create, remove), id, create, remove)
    /\ UNCHANGED <<instances, call, term, maps, lookup>>

\* UpdateResourceTags: the create-tags call and what follows it.
CreateTags ==
    /\ tagging.pc = "createTags"
    /\ \E out \in TagOutcomes(tagging.id) :
         LET next == AfterCreateTags(out, tagging.remove)
         IN  /\ instances' = IF out = NoErr
                             THEN [instances EXCEPT ![tagging.id].tags =
                                                        TagsAfterCreate(@, tagging.create)]
                             ELSE instances
             /\ tagging' = [tagging EXCEPT !.createCalls = @ + 1, !.createOut = out,
                                           !.pc = next.pc, !.result = next.err]
    /\ UNCHANGED <<call, term, maps, lookup>>

\* UpdateResourceTags: the delete-tags call and the return.
DeleteTags ==
    /\ tagging.pc = "deleteTags"
    /\ \E out \in TagOutcomes(tagging.id) :
         /\ instances' = IF out = NoErr
                         THEN [instances EXCEPT ![tagging.id].tags =
                                                    TagsAfterDelete(@, tagging.remove)]
                         ELSE instances
         /\ tagging' = [tagging EXCEPT !.deleteCalls = @ + 1, !.deleteOut = out,
                                       !.pc = "done", !.result = AfterDeleteTags(out)]
    /\ UNCHANGED <<call, term, maps, lookup>>

NextTagging ==
    \/ StartUpdateResourceTags
    \/ CreateTags
    \/ DeleteTags

SpecTagging == InitTagging /\ [][NextTagging]_vars

\* C13: an invocation of UpdateResourceTags that has returned has issued one
\* create-tags call if the create map is non-empty and none otherwise, and, if the
\* create step did not fail, one delete-tags call if the remove map is non-empty and
\* none otherwise: a non-empty create map with an empty remove map gives one
\* create-tags call and no delete-tags call, and two empty maps give no call and no
\* error.
C13_TagCallsFollowTheMaps ==
    LET t == tagging
        creates == IF MapLen(t.create) > 0 THEN 1 ELSE 0
        deletes == IF MapLen(t.remove) > 0 THEN 1 ELSE 0
    IN  /\ t.createCalls <= creates /\ t.deleteCalls <= deletes
        /\ t.pc = "done" =>
             /\ t.createCalls = creates
             /\ t.createOut = NoErr => t.deleteCalls = deletes
             /\ (creates = 1 /\ deletes = 0) => t.createCalls = 1 /\ t.deleteCalls = 0
             /\ (creates = 0 /\ deletes = 0)
                => t.createCalls = 0 /\ t.deleteCalls = 0 /\ t.result = NoErr

\* A non-empty create map with an empty remove map: one create-tags call, which the
\* backend took, and no delete-tags call.
C13_Witness ==
    /\ tagging.pc = "done" /\ MapLen(tagging.create) = 2 /\ tagging.remove = MakeMap(<<>>)
    /\ tagging.createCalls = 1 /\ tagging.deleteCalls = 0 /\ tagging.result = NoErr
    /\ instances[tagging.id].tags = tagging.create.kv

----------------------------------------------------------------------------
(* Package tags: Map.Difference and Map.Equals on tag maps (SpecMaps) *)

InitMaps ==
    /\ instances = <<>>
    /\ call = [m \in Machines |-> Idle]
    /\ term = IdleTermination
    /\ tagging = IdleTagUpdate
    /\ \E recv \in TagMaps, arg \in TagMaps : maps = Application(recv, arg)
    /\ lookup = IdleLookup

\* recv.Difference(arg): the function reads both maps and writes to neither.
CallDifference ==
    /\ maps' = [maps EXCEPT !.fn = "Difference", !.result = Difference(maps.recv, maps.arg)]
    /\ UNCHANGED <<instances, call, term, tagging, lookup>>

\* recv.Equals(arg)
CallEquals ==
    /\ maps' = [maps EXCEPT !.fn = "Equals", !.result = Equals(maps.recv, maps.arg)]
    /\ UNCHANGED <<instances, call, term, tagging, lookup>>

NextMaps ==
    \/ CallDifference
    \/ CallEquals

SpecMaps == InitMaps /\ [][NextMaps]_vars

\* Whether a map holds key with this value (a nil map holds nothing).
Holds(m, key, value) == key \in DOMAIN m.kv /\ m.kv[key] = value

\* C14: A.Difference(B) holds exactly the entries of A that B does not hold with the
\* same key and an identical value; A.Difference(A) is empty; and A and B are after
\* the call what they were before it.
C14_DifferenceExact ==
    maps.fn = "Difference" =>
        /\ \A key \in TagKeys, value \in TagValues :
               Holds(maps.result, key, value)
               <=> (Holds(maps.given[1], key, value) /\ ~Holds(maps.given[2], key, value))
        /\ DOMAIN maps.result.kv \subseteq TagKeys
        /\ maps.given[1] = maps.given[2] => MapLen(maps.result) = 0
        /\ maps.recv = maps.given[1] /\ maps.arg = maps.given[2]

\* B holds one key of A with the same value and the other with a different one: the
\* difference is the one entry whose value differs.
C14_Witness ==
    /\ maps.fn = "Difference"
    /\ MapLen(maps.recv) = 2 /\ MapLen(maps.arg) = 2
    /\ maps.recv.kv["Name"] = maps.arg.kv["Name"] /\ maps.recv.kv["team"] # maps.arg.kv["team"]
    /\ maps.result = MakeMap("team" :> maps.recv.kv["team"])

\* C15 as claimed: a.Equals(b) is true exactly when a and b have the same keys and
\* the same value for every key, a map being empty or absent (nil) making no
\* difference; it is reflexive and symmetric.
C15_AsClaimed ==
    maps.fn = "Equals" =>
        /\ maps.result = (/\ DOMAIN maps.recv.kv = DOMAIN maps.arg.kv
                          /\ \A key \in DOMAIN maps.recv.kv : maps.recv.kv[key] = maps.arg.kv[key])
        /\ maps.recv = maps.arg => maps.result = TRUE
        /\ maps.result = Equals(maps.arg, maps.recv)
        /\ (MapLen(maps.recv) = 0 /\ MapLen(maps.arg) = 0) => maps.result = TRUE

----------------------------------------------------------------------------
(* CreateOrGetMachine invoked concurrently for different machines (SpecConcurrent) *)

\* The ids the status of machine m may record: none, or the id of an instance an
\* invocation for m created or returned.
RecordedIds(m) ==
    {NoInstance} \cup CreatedFor(m) \cup ({call[m].result.inst} \cap InstanceIds)

\* CreateOrGetMachine is invoked for machine m while invocations for other machines
\* may be in flight; no two invocations for the same machine run at once.
StartConcurrent(m) ==
    /\ call[m].pc \in {"idle", "done"}
    /\ \E sid \in RecordedIds(m), cfg \in OrchConfigs :
         call' = [call EXCEPT ![m] =
                    Invocation(IF sid # NoInstance THEN "byId" ELSE "byTags", sid, cfg,
                               FALSE, Ascending(LiveFor(m)))]
    /\ UNCHANGED <<instances, others>>

NextConcurrent ==
    \/ \E m \in Machines : StartConcurrent(m)
    \/ \E m \in Machines : LookupById(m)
    \/ \E m \in Machines : LookupByTags(m)
    \/ \E m \in Machines : CreateInstancePrepare(m)
    \/ \E m \in Machines : RunInstances(m)
    \/ \E m \in Machines : WaitUntilInstanceRunning(m)
    \/ \E id \in InstanceIds : BackendProgress(id)

SpecConcurrent == Init /\ [][NextConcurrent]_vars

\* C16: with invocations for different machines interleaved at their backend calls,
\* every machine has at most one instance created for it, and an invocation that
\* returns an instance returns one that carries its own machine's name tag.
C16_NoInterference ==
    \A m \in Machines :
        /\ Cardinality(CreatedFor(m)) <= 1
        /\ (call[m].pc = "done" /\ call[m].result.inst \in InstanceIds)
           => /\ HasTag(instances[call[m].result.inst].tags, "Name", m)
              /\ call[m].result.inst \in CreatedFor(m)

\* Two invocations in flight at once: the one for m2 created its instance first and
\* still waits for it, the one for m1 created its instance after it and has returned.
C16_Witness ==
    /\ call["m2"].pc = "wait" /\ call["m2"].created = 1
    /\ call["m1"].pc = "done" /\ call["m1"].created = 2
    /\ call["m1"].result = [inst |-> 2, err |-> NoErr]
    /\ call["m1"].byTags.called /\ call["m1"].byTags.inst = NoInstance

----------------------------------------------------------------------------
(* Properties of the create call and its request (SpecCreate) *)

\* C17: an invocation of createInstance issues at most one create call, whose
\* request has minimum and maximum count 1; when the create call fails or returns
\* no instance, the invocation returns an error and no instance, with no second
\* create call and no wait-until-running call.
C17_OneCreateCall ==
    \A m \in Machines :
        LET c == call[m]
        IN  /\ c.runs <= 1
            /\ c.request # <<>> => c.request[1].MinCount = 1 /\ c.request[1].MaxCount = 1
            /\ (c.runs = 1 /\ c.created = NoInstance)
               => /\ c.pc = "done" /\ c.waits = 0 /\ c.events = 0
                  /\ c.result.inst = NoInstance /\ c.result.err # NoErr

\* The one create call returned a reservation without instances, and the invocation
\* ended with that as its error.
C17_Witness ==
    \E m \in Machines :
        LET c == call[m]
        IN  /\ c.pc = "done" /\ c.runs = 1 /\ c.waits = 0 /\ c.created = NoInstance
            /\ c.result.err = New("no instance returned for reservation")

\* C18: every create request carries, first, a tag specification for the instance
\* that holds both tag schemes, the canonical tags (cluster-ownership tag of the
\* cluster's name with value owned, the provider-managed marker, Name = machine name,
\* role = machine role) and the legacy tags (clusterid = cluster id and
\* kubernetes.io/cluster/<cluster id> = owned), and, second, a tag specification for
\* volumes that holds the clusterid tag.
C18_BothTagSchemes ==
    \A m \in Machines :
        call[m].request # <<>> =>
            LET specs == call[m].request[1].TagSpecifications
                canonical == Build(ClusterName, ResourceLifecycleOwned, m, call[m].cfg.role)
            IN  /\ Len(specs) = 2
                /\ specs[1].ResourceType = "instance"
                /\ \A key \in DOMAIN canonical : HasTag(specs[1].Tags, key, canonical[key])
                /\ HasTag(specs[1].Tags, "Name", m)
                /\ HasTag(specs[1].Tags, NameAWSClusterAPIRole, call[m].cfg.role)
                /\ HasTag(specs[1].Tags, NameKubernetesClusterPrefix \o ClusterName, "owned")
                /\ HasTag(specs[1].Tags, "clusterid", ClusterID)
                /\ HasTag(specs[1].Tags, NameKubernetesClusterPrefix \o ClusterID, "owned")
                /\ specs[2].ResourceType = "volume"
                /\ specs[2].Tags = ("clusterid" :> ClusterID)

\* The create request of a control-plane machine, and the instance the backend made
\* of it, with the six tags of the two schemes.
C18_Witness ==
    \E m \in Machines :
        /\ call[m].request # <<>> /\ call[m].cfg.role = RoleControlPlane
        /\ call[m].created # NoInstance
        /\ Cardinality(DOMAIN instances[call[m].created].tags) = 6
        /\ instances[call[m].created].tags = call[m].request[1].TagSpecifications[1].Tags

\* C19 as claimed: for a node, the network interface of the create request lists the
\* same security-group ids, in the same order, as the flat list computed for the
\* instance: the worker group if there is a cluster object, then every cluster-level
\* group.
C19_AsClaimed ==
    \A m \in Machines :
        LET c == call[m]
        IN  (c.request # <<>> /\ c.cfg.role = RoleNode)
            => /\ Len(c.request[1].NetworkInterfaces) = 1
               /\ c.built.input[1].SecurityGroupIDs
                    = (IF c.cfg.cluster THEN <<"sg-node">> ELSE <<>>) \o c.cfg.sgs
               /\ c.request[1].NetworkInterfaces[1].Groups = c.built.input[1].SecurityGroupIDs

\* Whether every step createInstance takes before the create call has succeeded for
\* the descriptor: the image is resolved, and the user data of the role is there (a
\* node without cluster object takes it from the secret, which may hold none).
StepsSucceeded(cfg, input) ==
    /\ input.ImageID # ""
    /\ cfg.role = RoleControlPlane => input.UserData = "controlplane-userdata"
    /\ (cfg.role = RoleNode /\ ~(~cfg.cluster /\ cfg.secret)) => input.UserData = "node-userdata"
    /\ (cfg.role = RoleNode /\ cfg.subnet = "filters")
       => input.NetworkInterfaces[1].SubnetId # Null

\* The errors of the calls createInstance makes before the create call.
PreCreateFailures ==
    {New("failed to find ami"), New("error describing availability zones"),
     New("error describing subnets"), New("failed to generate controlplane user data"),
     New("failed to get user data secret"), New("failed to hash certificate"),
     New("failed to generate node user data")}

\* C20: when createInstance stops before the create call (the image, the
\* availability zone, the subnets, the user data, the certificate hash or the
\* user-data secret having failed), no create call is issued and no instance made,
\* and the invocation returns the failure as a non-nil error; an invocation never
\* returns without an error unless it issued the create call, and it issues the
\* create call only when every one of these steps has succeeded.
C20_PreCreateFailuresAreErrors ==
    \A m \in Machines :
        LET c == call[m]
        IN  /\ c.built.err # NoErr
               => /\ c.pc = "done" /\ c.result.err = c.built.err
                  /\ c.runs = 0 /\ c.request = <<>> /\ c.created = NoInstance
                  /\ CreatedFor(m) = {}
            /\ (c.pc = "done" /\ c.entered /\ c.runs = 0) => c.result.err # NoErr
            /\ (c.pc = "done" /\ c.result.err \in PreCreateFailures) => c.runs = 0
            /\ c.runs > 0 => StepsSucceeded(c.cfg, c.built.input[1])

\* The certificate hash of a node failed: the invocation returns the error, with the
\* unfinished descriptor, and no create call was issued.
C20_Witness ==
    \E m \in Machines :
        LET c == call[m]
        IN  /\ c.pc = "done" /\ c.cfg.role = RoleNode
            /\ c.result = [inst |-> PartialInstance, err |-> New("failed to hash certificate")]
            /\ c.runs = 0 /\ c.request = <<>> /\ instances = <<>>

----------------------------------------------------------------------------
(* Properties of the placement by filters and of the role (SpecCreate) *)

\* C21 as claimed: for a machine whose subnet is given by filters, a create request
\* places the instance in the first subnet describe-subnets returned; when the
\* filters match no subnet there is no such request, the invocation having failed.
C21_AsClaimed ==
    \A m \in Machines :
        LET c == call[m]
        IN  (c.request # <<>> /\ c.cfg.subnet = "filters")
            => /\ \E l \in SubnetAnswers \ {<<>>} : PlacedIn(c.request[1], l[1])
               /\ ~PlacedIn(c.request[1], "")

\* C22 as claimed: createInstance for a machine whose role is neither controlplane
\* nor node ends in an error, and no create call is issued for it.
C22_AsClaimed ==
    \A m \in Machines :
        LET c == call[m]
        IN  (c.entered /\ c.pc # "create" /\ c.cfg.role \notin {RoleControlPlane, RoleNode})
            => /\ c.pc = "done" /\ c.result.err # NoErr
               /\ c.runs = 0 /\ c.request = <<>>

----------------------------------------------------------------------------
(* Properties of TerminateInstance (SpecTerminate) *)

\* C23: TerminateInstance issues one terminate call, for the one id given; when the
\* call succeeds it records one DeletedInstance event, on the cluster if there is
\* one and on the machine otherwise, and returns nil; when the call fails it
\* records no event and returns the wrapped error, without a second call.
C23_TerminateInstance ==
    /\ term.terminates <= 1
    /\ term.terminates = 1 =>
         /\ term.request = <<[InstanceIds |-> <<term.id>>]>>
         /\ IF term.terminateOut = NoErr
            THEN /\ term.events = <<[object |-> IF term.cluster THEN "cluster" ELSE "machine",
                                     reason |-> "DeletedInstance"]>>
                 /\ ~term.andWait => term.pc = "done" /\ term.result = NoErr
            ELSE /\ term.events = <<>> /\ term.pc = "done" /\ term.waits = 0
                 /\ term.result.wrapped /\ term.result.code = term.terminateOut.code
                 /\ term.result = Wrap(term.terminateOut, "failed to terminate instance")

\* TerminateInstance, the scope holding a cluster: the running instance is on its way
\* out, the event is on the cluster, and nil is returned.
C23_Witness ==
    /\ term.pc = "done" /\ ~term.andWait /\ term.cluster
    /\ term.terminates = 1 /\ term.terminateOut = NoErr /\ term.result = NoErr
    /\ term.events = <<[object |-> "cluster", reason |-> "DeletedInstance"]>>
    /\ instances[term.id].state = InstanceStateNameShuttingDown
    /\ \E i \in 1..Len(instances) : i # term.id /\ instances[i].state = InstanceStateNameRunning

----------------------------------------------------------------------------
(* Properties of UpdateResourceTags' two steps (SpecTagging) *)

\* C24 as claimed: with both maps non-empty, an invocation of UpdateResourceTags
\* that has returned has issued the create-tags call and, whether or not that call
\* failed, the delete-tags call, the create-tags call first, and has returned the
\* first error met.
C24_AsClaimed ==
    LET t == tagging
    IN  (MapLen(t.create) > 0 /\ MapLen(t.remove) > 0)
        => /\ t.deleteCalls > 0 => t.createCalls = 1
           /\ t.pc = "done"
              => /\ t.createCalls = 1 /\ t.deleteCalls = 1
                 /\ t.result = IF t.createOut # NoErr
                               THEN Wrap(t.createOut, "failed to create tags for resource")
                               ELSE AfterDeleteTags(t.deleteOut)

----------------------------------------------------------------------------
(* The Instance Finder on describe answers of any shape (SpecFinder) *)

\* A describe answer holds at most this many reservations.
MaxReservations == 3

\* A reservation of a describe answer: up to two instances, in some order.
ReservationValues ==
    {<<>>} \cup {<<i>> : i \in InstanceIds}
    \cup {<<p[1], p[2]>> : p \in {q \in InstanceIds \X InstanceIds : q[1] # q[2]}}

\* The describe answers: a not-found error, a fault, or up to MaxReservations
\* reservations, empty ones among them.
DescribeAnswers ==
    {[err |-> AwsErr("NotFound"), Reservations |-> <<>>],
     [err |-> AwsErr("RequestError"), Reservations |-> <<>>]}
    \cup {[err |-> NoErr, Reservations |-> rs] :
            rs \in UNION {[1..n -> ReservationValues] : n \in 0..MaxReservations}}

InitFinder ==
    /\ instances = <<>>
    /\ call = [m \in Machines |-> Idle]
    /\ term = IdleTermination
    /\ tagging = IdleTagUpdate
    /\ maps = Application(NilMap, NilMap)
    /\ \E out \in DescribeAnswers : lookup = Lookup(out)

\* InstanceByTags, the describe call answering lookup.out.
CallInstanceByTags ==
    /\ lookup' = [lookup EXCEPT !.fn = "InstanceByTags", !.result = InstanceByTags(lookup.out)]
    /\ UNCHANGED <<instances, call, term, tagging, maps>>

\* InstanceIfExists, the describe call answering lookup.out.
CallInstanceIfExists ==
    /\ lookup' = [lookup EXCEPT !.fn = "InstanceIfExists",
                                !.result = InstanceIfExists(lookup.out)]
    /\ UNCHANGED <<instances, call, term, tagging, maps>>

NextFinder ==
    \/ CallInstanceByTags
    \/ CallInstanceIfExists

SpecFinder == InitFinder /\ [][NextFinder]_vars

\* The instance records of a describe answer, in response order.
RECURSIVE Records(_)
Records(rs) == IF rs = <<>> THEN <<>> ELSE Head(rs) \o Records(Tail(rs))

\* C25: InstanceByTags, the describe call having answered without error, returns
\* the first instance record of the answer in response order, reservations without
\* instances being passed over, and nothing if there is no record; it returns no
\* error, however many records there are, and the same for the same answer.
C25_FirstInResponseOrder ==
    (lookup.fn = "InstanceByTags" /\ lookup.out.err = NoErr)
    => LET records == Records(lookup.out.Reservations)
       IN  /\ lookup.result.err = NoErr
           /\ lookup.result.inst = IF records = <<>> THEN NoInstance ELSE records[1]
           /\ lookup.result = InstanceByTags(lookup.out)

\* The first reservation holds no instance, the second holds two and the third one
\* more: the first of the second is returned.
C25_Witness ==
    /\ lookup.fn = "InstanceByTags" /\ lookup.out.err = NoErr
    /\ lookup.out.Reservations = <<<<>>, <<2, 1>>, <<1>>>>
    /\ lookup.result = [inst |-> 2, err |-> NoErr]

\* C26 as claimed: InstanceIfExists, the describe call having answered without
\* error, returns an instance whenever a reservation of the answer holds an instance
\* record, and nothing only when none does.
C26_AsClaimed ==
    (lookup.fn = "InstanceIfExists" /\ lookup.out.err = NoErr)
    => /\ lookup.result.err = NoErr
       /\ lookup.result.inst # NoInstance <=> Records(lookup.out.Reservations) # <<>>

----------------------------------------------------------------------------
(* Properties of the tags as identity (Spec) *)

\* C27: every instance created for a machine carries the cluster-ownership tag of
\* the scope's cluster name with value owned and the Name tag of the machine, the
\* filters of InstanceByTags for that machine, so that while it is pending or
\* running the describe call of InstanceByTags matches it, and an InstanceByTags for
\* the machine whose describe call does not fault returns it.
C27_StampedTagsSatisfyFilters ==
    \A m \in Machines :
        /\ \A i \in CreatedFor(m) :
               /\ HasTag(instances[i].tags, NameKubernetesClusterPrefix \o ClusterName, "owned")
               /\ HasTag(instances[i].tags, "Name", m)
               /\ MatchesTags(i, ClusterName, m)
        /\ \A i \in LiveFor(m) :
               \E k \in 1..Len(MatchByTags(ClusterName, m)) : MatchByTags(ClusterName, m)[k] = i
        /\ LET c == call[m]
           IN  (/\ c.byTags.called /\ c.byTags.out = NoErr
                /\ c.liveAtStart # <<>> /\ IsLive(c.liveAtStart[1]))
               => c.byTags.inst = c.liveAtStart[1] /\ c.byTags.err = NoErr

\* The status records an id the backend does not hold as pending or running, the
\* cluster's name and the cluster id differ, and the machine's instance is found by
\* its tags.
C27_Witness ==
    \E m \in Machines :
        LET c == call[m]
        IN  /\ ClusterName # ClusterID
            /\ c.pc = "done" /\ c.liveAtStart # <<>>
            /\ c.statusId # NoInstance /\ c.statusId # c.liveAtStart[1]
            /\ c.byId.called /\ c.byId.inst = NoInstance
            /\ c.byTags.called /\ c.byTags.inst = c.liveAtStart[1]
            /\ c.result = [inst |-> c.liveAtStart[1], err |-> NoErr]

----------------------------------------------------------------------------
(* Tag convergence: Map.Difference and UpdateResourceTags together (SpecConverge) *)

\* The caller converges the tags of resource id to the desired ones: it observes the
\* resource's tags and invokes UpdateResourceTags with what Difference finds to
\* create and to remove.
StartConverge ==
    /\ tagging.pc \in {"idle", "done"}
    /\ \E id \in 1..Len(instances), desired \in TagMaps :
         LET observed == MakeMap(instances[id].tags)
             create == Difference(desired, observed)
             remove == Difference(observed, desired)
         IN  tagging' = [TagUpdate(UpdateResourceTagsBegin(create, remove), id, create, remove)
                            EXCEPT !.desired = desired]
    /\ UNCHANGED <<instances, call, term, maps, lookup>>

NextConverge ==
    \/ StartConverge
    \/ CreateTags
    \/ DeleteTags

SpecConverge == InitTagging /\ [][NextConverge]_vars

\* C28: when UpdateResourceTags, invoked with create = desired.Difference(observed)
\* and remove = observed.Difference(desired) for a resource whose tags are observed,
\* has returned without error, the resource's tags are exactly the desired ones,
\* a key that both maps hold with different values having the desired value.
C28_ConvergesToDesired ==
    (tagging.pc = "done" /\ tagging.result = NoErr)
    => /\ DOMAIN instances[tagging.id].tags = DOMAIN tagging.desired.kv
       /\ \A key \in DOMAIN tagging.desired.kv :
              instances[tagging.id].tags[key] = tagging.desired.kv[key]

\* One key was to change its value and the other to go: a create-tags call and a
\* delete-tags call later the resource holds the one key with the desired value.
C28_Witness ==
    /\ tagging.pc = "done" /\ tagging.result = NoErr
    /\ tagging.createCalls = 1 /\ tagging.deleteCalls = 1
    /\ tagging.desired = MakeMap("Name" :> "b")
    /\ tagging.create = MakeMap("Name" :> "b")
    /\ tagging.remove = MakeMap(("Name" :> "a") @@ ("team" :> "a"))
    /\ instances[tagging.id].tags = ("Name" :> "b")

----------------------------------------------------------------------------
(* A machine's instance is terminated and the machine reconciled again (SpecLifecycle) *)

\* The machine whose lifecycle is followed.
TheMachine == "m1"

\* CreateOrGetMachine is invoked for the machine, whose status records none of, or
\* any of, the ids of the instances created for it, once the earlier invocation and
\* the termination have returned.
StartCreateOrGetMachine ==
    /\ term.pc \in {"idle", "done"}
    /\ StartConcurrent(TheMachine)

\* TerminateInstanceAndWait is invoked for an instance of the machine, once the earlier
\* invocations have returned; what CreateOrGetMachine returned before is forgotten.
StartTerminateInstanceAndWait ==
    /\ term.pc \in {"idle", "done"}
    /\ \A k \in Machines : call[k].pc \in {"idle", "done"}
    /\ \E id \in CreatedFor(TheMachine), cluster \in BOOLEAN :
         term' = Termination("terminate", id, TRUE, cluster)
    /\ call' = [k \in Machines |-> Idle]
    /\ UNCHANGED <<instances, tagging, maps, lookup>>

NextLifecycle ==
    \/ StartCreateOrGetMachine
    \/ LookupById(TheMachine)
    \/ LookupByTags(TheMachine)
    \/ CreateInstancePrepare(TheMachine)
    \/ RunInstances(TheMachine)
    \/ WaitUntilInstanceRunning(TheMachine)
    \/ StartTerminateInstanceAndWait
    \/ TerminateInstances
    \/ WaitUntilInstanceTerminated
    \/ \E id \in InstanceIds : BackendProgress(id)

SpecLifecycle == Init /\ [][NextLifecycle]_vars

\* C29: an instance that InstanceIfExists or InstanceByTags returned is pending or
\* running; and once TerminateInstanceAndWait has returned without error for an
\* instance of the machine, that instance is terminated, and a CreateOrGetMachine
\* invoked for the machine afterwards, whatever id the status records, gets the
\* terminated instance from neither lookup and does not return it: with no other
\* pending or running instance of the machine and no faulting lookup it goes on to
\* createInstance, and what it returns without error from there is the instance it
\* has just created.
C29_TerminatedIsNotReturned ==
    LET c == call[TheMachine]
    IN  /\ \A r \in {c.byId, c.byTags} : r.inst # NoInstance => IsLive(r.inst)
        /\ (term.pc = "done" /\ term.andWait /\ term.result = NoErr)
           => /\ instances[term.id].state = InstanceStateNameTerminated
              /\ c.byId.inst # term.id /\ c.byTags.inst # term.id
              /\ c.result.inst # term.id
              /\ (c.pc = "done" /\ ~LookupFaulted(c) /\ c.liveAtStart = <<>>) => c.entered
              /\ (c.pc = "done" /\ c.entered /\ c.result.err = NoErr)
                 => /\ c.runs = 1 /\ c.created \in InstanceIds \ {term.id}
                    /\ c.result.inst = c.created
                    /\ instances[c.created].by = TheMachine
                    /\ IsLive(c.created)

\* The machine's instance was terminated and waited for; the following invocation,
\* with the terminated instance's id in the status, found nothing by id and nothing
\* by tags, and returned a new instance.
C29_Witness ==
    LET c == call[TheMachine]
    IN  /\ term.pc = "done" /\ term.andWait /\ term.result = NoErr
        /\ c.pc = "done" /\ c.statusId = term.id
        /\ c.byId.called /\ c.byId.inst = NoInstance
        /\ c.byTags.called /\ c.byTags.inst = NoInstance
        /\ c.created # NoInstance /\ c.created # term.id
        /\ c.result = [inst |-> c.created, err |-> NoErr]

=============================================================================
